---------------------------- MODULE Spec2Model ----------------------------
(***************************************************************************)
(* A model of the two development servers of the repository.              *)
(*                                                                         *)
(*   cors_server.py  the key server: CORSRequestHandler on an HTTPServer   *)
(*                   bound to 127.0.0.1:8000 (specification Spec)          *)
(*   launch.py       the launcher: find_free_port and main                 *)
(*                   (specification SpecLaunch)                            *)
(*                                                                         *)
(* Requests are well-formed HTTP/1.x requests (the wire protocol of the    *)
(* key server); the standard library's HTTPServer handles one connection   *)
(* at a time and builds one CORSRequestHandler per connection.             *)
(***************************************************************************)
EXTENDS Integers, Sequences, FiniteSets, TLC

VARIABLES
    environ,      \* os.environ.get('VITE_ENCRYPTION_KEY') of the server process
    config,       \* local_config.json beside cors_server.py, as it is on disk now
    docroot,      \* names of the files that exist under the serving directory
    pc,           \* "boot": before __main__ ran; "serving": inside serve_forever
    stdout,       \* the kinds of lines the process has printed
    handler,      \* the CORSRequestHandler under construction (load_error: its
                  \* except branch ran), or NoHandler
    response,     \* the response written on the latest connection, or NoResponse
    startup,      \* history: the key env and config yielded when __main__ ran
    lpc,          \* launch.py: position of main / find_free_port
    args,         \* launch.py: the arguments of the running find_free_port call
    port,         \* launch.py: the loop variable of find_free_port
    probes,       \* launch.py: history: the ports whose bind raised OSError
    outcome       \* launch.py: how the find_free_port call ended

vars == <<environ, config, docroot, pc, stdout, handler, response, startup,
          lpc, args, port, probes, outcome>>

serverVars == <<environ, config, docroot, pc, stdout, handler, response, startup>>
launchVars == <<lpc, args, port, probes, outcome>>

(***************************************************************************)
(* Bounds of the model.                                                    *)
(***************************************************************************)
\* longest string drawn for the environment variable or the config field
MaxLen == 1
\* most attempts a direct call of find_free_port is given
MaxAttempts == 3

\* the characters strings are made of: an ordinary one, and the two that
\* json.dumps has to escape
Chars == {"a", "\"", "\\"}

RECURSIVE StringsOfLen(_)
StringsOfLen(n) ==
    IF n = 0 THEN {<<>>}
    ELSE {Append(s, c) : s \in StringsOfLen(n - 1), c \in Chars}

Strings == UNION {StringsOfLen(n) : n \in 0..MaxLen}

(***************************************************************************)
(* Python values that can reach self.encryption_key.                       *)
(***************************************************************************)
PyNone == [t |-> "none", s |-> <<>>, n |-> 0]
PyStr(s) == [t |-> "str", s |-> s, n |-> 0]
PyNum(n) == [t |-> "num", s |-> <<>>, n |-> n]

\* the numbers a config field is drawn from: a falsy and a truthy one
Numbers == {0, 7}

EnvValues == {PyNone} \cup {PyStr(s) : s \in Strings}
JsonValues == {PyNone} \cup {PyStr(s) : s \in Strings} \cup {PyNum(n) : n \in Numbers}

\* Python truthiness, as `if not self.encryption_key` / `if self.encryption_key`
\* evaluate it
Truthy(v) ==
    CASE v.t = "none" -> FALSE
      [] v.t = "str" -> v.s # <<>>
      [] v.t = "num" -> v.n # 0

(***************************************************************************)
(* local_config.json.  kind is what opening and json.load-ing it gives:    *)
(*   missing     os.path.exists is False                                   *)
(*   unreadable  the file exists and open() raises OSError                 *)
(*   malformed   json.load raises (not JSON)                               *)
(*   nonobject   valid JSON that is not an object: config.get raises       *)
(*   object      a JSON object; has: it holds the field VITE_ENCRYPTION_KEY*)
(***************************************************************************)
ConfigFile(kind, has, val) == [kind |-> kind, has |-> has, val |-> val]

ConfigFiles ==
    {ConfigFile(k, FALSE, PyNone) :
        k \in {"missing", "unreadable", "malformed", "nonobject", "object"}}
    \cup {ConfigFile("object", TRUE, v) : v \in JsonValues}


(***************************************************************************)
(* CORSRequestHandler.__init__, up to the call of super().__init__: the    *)
(* value of self.encryption_key for an environment value and a config      *)
(* file, and whether "Error loading local config" is printed.              *)
(***************************************************************************)
\* as if only a JSON syntax error were caught
ConfigRaises_JsonOnly(cfg) == cfg.kind \in {"malformed"}

ConfigRaises(cfg) == cfg.kind \in {"unreadable", "malformed", "nonobject"}

\* config.get('VITE_ENCRYPTION_KEY') on a loaded JSON object
ConfigGet(cfg) == IF cfg.has THEN cfg.val ELSE PyNone

\* as if the file were read first and the environment were the fallback
LoadKey_FileFirst(env, cfg) ==
    LET fromFile == IF cfg.kind # "missing" /\ ~ConfigRaises(cfg)
                    THEN ConfigGet(cfg) ELSE PyNone
    IN  IF Truthy(fromFile) THEN fromFile
        ELSE IF Truthy(env) THEN env ELSE PyNone

LoadKey(env, cfg) ==
    IF ~Truthy(env)
    THEN IF cfg.kind # "missing"
         THEN IF ConfigRaises(cfg) THEN PyNone ELSE ConfigGet(cfg)
         ELSE PyNone
    ELSE env

LoadPrintsError(env, cfg) ==
    ~Truthy(env) /\ cfg.kind # "missing" /\ ConfigRaises(cfg)

(***************************************************************************)
(* Requests and the serving directory.                                     *)
(***************************************************************************)
KeyPath == "/api/encryption-key"

Methods == {"GET", "HEAD", "OPTIONS", "POST"}
Paths == {KeyPath, "/api/encryption-key?x=1", "/index.html"}
Requests == [method : Methods, path : Paths]

FileNames == {"api/encryption-key", "index.html"}

\* translate_path of the file-serving base class: the query string is
\* dropped and the rest is taken relative to the serving directory
translate_path(path) ==
    IF path = "/index.html" THEN "index.html" ELSE "api/encryption-key"

(***************************************************************************)
(* Building a response: send_response, send_header, end_headers, and       *)
(* wfile.write.  fs records whether the serving directory was looked at.   *)
(***************************************************************************)
DefaultMessage(code) ==
    CASE code = 200 -> "OK"
      [] code = 404 -> "Not Found"
      [] OTHER -> ""

\* send_response of the base class opens the header block with Server and Date
send_response(code, message) ==
    [status |-> code, message |-> message,
     headers |-> << <<"Server", "SimpleHTTP">>, <<"Date", "now">> >>,
     body |-> <<>>, fs |-> FALSE]

send_header(r, name, value) ==
    [r EXCEPT !.headers = Append(@, <<name, value>>)]

\* as if the last policy header were left out
end_headers_NoEmbedderPolicy(r) ==
    LET h1 == send_header(r, "Access-Control-Allow-Origin", "*")
        h2 == send_header(h1, "Access-Control-Allow-Methods", "GET, POST, OPTIONS")
        h3 == send_header(h2, "Access-Control-Allow-Headers",
                          "Origin, Content-Type, Accept, Range")
        h4 == send_header(h3, "Cross-Origin-Opener-Policy", "same-origin")
    IN  h4

end_headers(r) ==
    LET h1 == send_header(r, "Access-Control-Allow-Origin", "*")
        h2 == send_header(h1, "Access-Control-Allow-Methods", "GET, POST, OPTIONS")
        h3 == send_header(h2, "Access-Control-Allow-Headers",
                          "Origin, Content-Type, Accept, Range")
        h4 == send_header(h3, "Cross-Origin-Opener-Policy", "same-origin")
        h5 == send_header(h4, "Cross-Origin-Embedder-Policy", "require-corp")
    IN  h5

write(r, data) == [r EXCEPT !.body = @ \o data]

(***************************************************************************)
(* json.dumps({'key': v}) as the sequence of text pieces written: a string *)
(* is quoted and its quotes and backslashes are escaped with a backslash.  *)
(***************************************************************************)
\* as if the string were written between quotes as it is
EscapeChars_None(s) == s

RECURSIVE EscapeChars(_)
EscapeChars(s) ==
    IF s = <<>> THEN <<>>
    ELSE (IF Head(s) \in {"\"", "\\"} THEN <<"\\", Head(s)>> ELSE <<Head(s)>>)
         \o EscapeChars(Tail(s))

JsonEncode(v) ==
    CASE v.t = "none" -> <<"null">>
      [] v.t = "num" -> <<ToString(v.n)>>
      [] v.t = "str" -> <<"\"">> \o EscapeChars(v.s) \o <<"\"">>

JsonDumpsKey(v) == <<"{", "\"", "k", "e", "y", "\"", ":", " ">> \o JsonEncode(v) \o <<"}">>

(***************************************************************************)
(* The handlers.                                                           *)
(***************************************************************************)
\* as if the preflight of the key endpoint looked at the key
do_OPTIONS_KeyAware(h, req) ==
    IF req.path = "/api/encryption-key" /\ ~Truthy(h.encryption_key)
    THEN end_headers(send_response(404, "Not Found"))
    ELSE end_headers(send_response(200, "ok"))

do_OPTIONS(h, req) == end_headers(send_response(200, "ok"))

\* send_error of the base class: an HTML error page, no body for HEAD
send_error(req, code, message) ==
    LET r1 == send_response(code, message)
        r2 == send_header(r1, "Connection", "close")
        r3 == send_header(r2, "Content-Type", "text/html;charset=utf-8")
        r4 == send_header(r3, "Content-Length", "len")
        r5 == end_headers(r4)
    IN  IF req.method # "HEAD" THEN write(r5, <<"<error page>">>) ELSE r5

\* send_head of the base class: the file's headers, or 404
send_head(req, files) ==
    LET name == translate_path(req.path) IN
    IF name \in files
    THEN LET r1 == send_response(200, DefaultMessage(200))
             r2 == send_header(r1, "Content-type", "application/octet-stream")
             r3 == send_header(r2, "Content-Length", "len")
             r4 == send_header(r3, "Last-Modified", "mtime")
         IN  [end_headers(r4) EXCEPT !.fs = TRUE]
    ELSE [send_error(req, 404, "File not found") EXCEPT !.fs = TRUE]

\* SimpleHTTPRequestHandler.do_GET: the headers, then the file's bytes
super_do_GET(req, files) ==
    LET r == send_head(req, files) IN
    IF r.status = 200 THEN write(r, <<"<contents>", translate_path(req.path)>>) ELSE r

\* SimpleHTTPRequestHandler.do_HEAD, which the class does not override
do_HEAD(req, files) == send_head(req, files)

\* as if the key were tested with `is not None`
ServeKey_IsNotNone(h) ==
    IF h.encryption_key # PyNone
    THEN LET r1 == send_response(200, DefaultMessage(200))
             r2 == send_header(r1, "Content-Type", "application/json")
             r3 == end_headers(r2)
         IN  write(r3, JsonDumpsKey(h.encryption_key))
    ELSE LET r1 == send_response(404, DefaultMessage(404))
             r2 == end_headers(r1)
         IN  write(r2, <<"Encryption key not configured">>)

\* the branch of do_GET for the key endpoint
ServeKey(h) ==
    IF Truthy(h.encryption_key)
    THEN LET r1 == send_response(200, DefaultMessage(200))
             r2 == send_header(r1, "Content-Type", "application/json")
             r3 == end_headers(r2)
         IN  write(r3, JsonDumpsKey(h.encryption_key))
    ELSE LET r1 == send_response(404, DefaultMessage(404))
             r2 == end_headers(r1)
         IN  write(r2, <<"Encryption key not configured">>)

\* as if a file of that name were served before the key endpoint
do_GET_FileFirst(h, req, files) ==
    IF translate_path(req.path) \in files
    THEN super_do_GET(req, files)
    ELSE IF req.path = KeyPath THEN ServeKey(h) ELSE super_do_GET(req, files)

do_GET(h, req, files) ==
    IF req.path = KeyPath
    THEN ServeKey(h)
    ELSE super_do_GET(req, files)

\* handle_one_request of the base class: do_<METHOD> if the class has it,
\* else 501
Dispatch(h, req, files) ==
    CASE req.method = "OPTIONS" -> do_OPTIONS(h, req)
      [] req.method = "GET" -> do_GET(h, req, files)
      [] req.method = "HEAD" -> do_HEAD(req, files)
      [] OTHER -> send_error(req, 501, "Unsupported method")

(***************************************************************************)
(* The key server as a state machine.                                      *)
(***************************************************************************)
NoHandler == [state |-> "none"]
NoResponse == [state |-> "none"]
NotStarted == [t |-> "unknown", s |-> <<>>, n |-> 0]

NoCall == [caller |-> "none", start_port |-> 0, max_attempts |-> 0]

LaunchIdle ==
    /\ lpc = "idle"
    /\ args = NoCall
    /\ port = 0
    /\ probes = {}
    /\ outcome = "none"

Init ==
    /\ environ \in EnvValues
    /\ config \in ConfigFiles
    /\ docroot \in SUBSET FileNames
    /\ pc = "boot"
    /\ stdout = {}
    /\ handler = NoHandler
    /\ response = NoResponse
    /\ startup = NotStarted
    /\ LaunchIdle

\* the lines __main__ prints before it builds the server
StartupLines(env, cfg) ==
    {"Serving"} \cup
    (IF ~Truthy(env)
     THEN IF cfg.kind # "missing" THEN {"UsingLocalConfig"} ELSE {"Warning"}
     ELSE {})

\* __main__: print, then HTTPServer(('127.0.0.1', 8000), ...).serve_forever();
\* bound is whether port 8000 could be bound
Main(bound) ==
    /\ pc = "boot"
    /\ stdout' = stdout \cup StartupLines(environ, config)
    /\ startup' = LoadKey(environ, config)
    /\ pc' = IF bound THEN "serving" ELSE "exited"
    /\ UNCHANGED <<environ, config, docroot, handler, response, launchVars>>

\* a connection is accepted and its handler constructed: lines 9-22
HandlerInit ==
    /\ pc = "serving"
    /\ handler = NoHandler
    /\ handler' = [state |-> "constructed",
                   encryption_key |-> LoadKey(environ, config),
                   load_error |-> LoadPrintsError(environ, config)]
    /\ response' = NoResponse
    /\ stdout' = stdout \cup
                 (IF LoadPrintsError(environ, config) THEN {"ErrorLoading"} ELSE {})
    /\ UNCHANGED <<environ, config, docroot, pc, startup, launchVars>>

\* super().__init__ reads the request and dispatches it; the connection is
\* then closed and the handler dropped
Handle(req) ==
    /\ pc = "serving"
    /\ handler # NoHandler
    /\ response' = [state |-> "sent", req |-> req,
                    encryption_key |-> handler.encryption_key,
                    load_error |-> handler.load_error,
                    r |-> Dispatch(handler, req, docroot)]
    /\ handler' = NoHandler
    /\ UNCHANGED <<environ, config, docroot, pc, stdout, startup, launchVars>>

\* somebody edits, replaces or removes local_config.json
EditConfig(c) ==
    /\ c # config
    /\ config' = c
    /\ UNCHANGED <<environ, docroot, pc, stdout, handler, response, startup, launchVars>>

Next ==
    \/ \E bound \in BOOLEAN : Main(bound)
    \/ HandlerInit
    \/ \E req \in Requests : Handle(req)
    \/ \E c \in ConfigFiles : EditConfig(c)

Spec == Init /\ [][Next]_vars


(***************************************************************************)
(* launch.py: find_free_port and main.                                     *)
(***************************************************************************)
DefaultStartPort == 8000
DefaultMaxAttempts == 100

\* the ports socket.bind accepts; any other raises OverflowError, which is
\* no OSError
ValidPorts == 0..65535

\* the start ports a direct call is given: the default, and the top of the
\* port range
StartPorts == {DefaultStartPort, 65534, 65535}

\* range(start_port, start_port + max_attempts): its exclusive end
RangeEnd(a) == a.start_port + a.max_attempts

ServerIdle ==
    /\ environ = PyNone
    /\ config = ConfigFile("missing", FALSE, PyNone)
    /\ docroot = {}
    /\ pc = "boot"
    /\ stdout = {}
    /\ handler = NoHandler
    /\ response = NoResponse
    /\ startup = NotStarted

InitLaunch ==
    /\ ServerIdle
    /\ lpc = "start"
    /\ args = NoCall
    /\ port = 0
    /\ probes = {}
    /\ outcome = "none"

\* main: check_files, then find_free_port(8000)
LaunchMain(files_ok) ==
    /\ lpc = "start"
    /\ IF files_ok
       THEN /\ lpc' = "find_free_port"
            /\ args' = [caller |-> "main", start_port |-> DefaultStartPort,
                        max_attempts |-> DefaultMaxAttempts]
            /\ port' = DefaultStartPort
       ELSE /\ lpc' = "exit1"
            /\ UNCHANGED <<args, port>>
    /\ UNCHANGED <<probes, outcome, serverVars>>

\* find_free_port(start_port, max_attempts) called on its own
CallFindFreePort(start_port, max_attempts) ==
    /\ lpc = "start"
    /\ lpc' = "find_free_port"
    /\ args' = [caller |-> "call", start_port |-> start_port,
                max_attempts |-> max_attempts]
    /\ port' = start_port
    /\ UNCHANGED <<probes, outcome, serverVars>>

\* one turn of the loop: bind the port; free is whether the port can be
\* bound at this moment
Probe(free) ==
    /\ lpc = "find_free_port"
    /\ port < RangeEnd(args)
    /\ IF port \notin ValidPorts
       THEN /\ ~free
            /\ outcome' = "OverflowError"
            /\ lpc' = "finished"
            /\ UNCHANGED <<port, probes>>
       ELSE IF free
            THEN /\ outcome' = "returned"
                 /\ lpc' = "finished"
                 /\ UNCHANGED <<port, probes>>
            ELSE /\ probes' = probes \cup {port}
                 /\ port' = port + 1
                 /\ UNCHANGED <<outcome, lpc>>
    /\ UNCHANGED <<args, serverVars>>

\* the loop ran out: raise RuntimeError
Exhausted ==
    /\ lpc = "find_free_port"
    /\ port >= RangeEnd(args)
    /\ outcome' = "RuntimeError"
    /\ lpc' = "finished"
    /\ UNCHANGED <<args, port, probes, serverVars>>

\* main after find_free_port: RuntimeError is caught and exits with 1; any
\* other exception leaves main as a traceback; else start_server(port), whose
\* HTTPServer may fail to bind (caught, exit 1)
MainContinue(bound) ==
    /\ lpc = "finished"
    /\ args.caller = "main"
    /\ lpc' = CASE outcome = "RuntimeError" -> "exit1"
                [] outcome = "returned" -> IF bound THEN "serving" ELSE "exit1"
                [] OTHER -> "traceback"
    /\ UNCHANGED <<args, port, probes, outcome, serverVars>>

NextLaunch ==
    \/ \E files_ok \in BOOLEAN : LaunchMain(files_ok)
    \/ \E s \in StartPorts, m \in 0..MaxAttempts : CallFindFreePort(s, m)
    \/ \E free \in BOOLEAN : Probe(free)
    \/ Exhausted
    \/ \E bound \in BOOLEAN : MainContinue(bound)

SpecLaunch == InitLaunch /\ [][NextLaunch]_vars


(***************************************************************************)
(* What the claims speak of.                                               *)
(***************************************************************************)
\* the header policy as the specification states it
SpecifiedPolicy ==
    { <<"Access-Control-Allow-Origin", "*">>,
      <<"Access-Control-Allow-Methods", "GET, POST, OPTIONS">>,
      <<"Access-Control-Allow-Headers", "Origin, Content-Type, Accept, Range">>,
      <<"Cross-Origin-Opener-Policy", "same-origin">>,
      <<"Cross-Origin-Embedder-Policy", "require-corp">> }

HeaderValues(r, name) ==
    {r.headers[i][2] : i \in {j \in 1..Len(r.headers) : r.headers[j][1] = name}}

HeaderCount(r, name) ==
    Cardinality({j \in 1..Len(r.headers) : r.headers[j][1] = name})

CarriesPolicy(r) ==
    \A h \in SpecifiedPolicy :
        HeaderCount(r, h[1]) = 1 /\ HeaderValues(r, h[1]) = {h[2]}

Sent == response.state = "sent"
IsKeyRequest(req) == req.method = "GET" /\ req.path = KeyPath

\* a value the key endpoint treats as no key: None, or an empty or zero value
Absent(v) == v = PyNone \/ v = PyStr(<<>>) \/ v = PyNum(0)

NotConfiguredText == <<"Encryption key not configured">>

\* a JSON reader for the body of the key endpoint: the value v of a text
\* {"key": v}, or Invalid when the text is not of that form
Invalid == [t |-> "invalid", s |-> <<>>, n |-> 0]

RECURSIVE Unescape(_)
Unescape(s) ==
    IF s = <<>> THEN [ok |-> TRUE, s |-> <<>>]
    ELSE IF Head(s) = "\\"
         THEN IF Len(s) >= 2 /\ s[2] \in {"\"", "\\"}
              THEN LET rest == Unescape(SubSeq(s, 3, Len(s)))
                   IN  [ok |-> rest.ok, s |-> <<s[2]>> \o rest.s]
              ELSE [ok |-> FALSE, s |-> <<>>]
         ELSE IF Head(s) = "\""
              THEN [ok |-> FALSE, s |-> <<>>]
              ELSE LET rest == Unescape(Tail(s))
                   IN  [ok |-> rest.ok, s |-> <<Head(s)>> \o rest.s]

JsonReadValue(toks) ==
    IF toks = <<"null">> THEN PyNone
    ELSE IF Len(toks) = 1 /\ \E n \in 0..9 : toks[1] = ToString(n)
    THEN PyNum(CHOOSE n \in 0..9 : toks[1] = ToString(n))
    ELSE IF Len(toks) >= 2 /\ toks[1] = "\"" /\ toks[Len(toks)] = "\""
    THEN LET inner == Unescape(SubSeq(toks, 2, Len(toks) - 1))
         IN  IF inner.ok THEN PyStr(inner.s) ELSE Invalid
    ELSE Invalid

JsonReadKey(body) ==
    IF /\ Len(body) >= 10
       /\ SubSeq(body, 1, 8) = <<"{", "\"", "k", "e", "y", "\"", ":", " ">>
       /\ body[Len(body)] = "}"
    THEN JsonReadValue(SubSeq(body, 9, Len(body) - 1))
    ELSE Invalid

(***************************************************************************)
(* C1.  Every response of the key server carries the five policy headers,  *)
(* each once and with exactly the specified value, whatever the method,    *)
(* the path and the outcome.                                               *)
(***************************************************************************)
C1_PolicyOnEveryResponse == Sent => CarriesPolicy(response.r)

\* an error response: an unsupported method
C1_Witness ==
    Sent /\ response.req.method = "POST" /\ response.r.status = 501

(***************************************************************************)
(* C2.  As claimed: every answer of GET /api/encryption-key is the answer  *)
(* for the key that the environment and local_config.json yielded when the *)
(* server started.                                                         *)
(***************************************************************************)
C2_KeyFixedAtStartup ==
    Sent /\ IsKeyRequest(response.req) => response.encryption_key = startup

(***************************************************************************)
(* C3.  As claimed: when a handler is constructed, a set environment       *)
(* variable is the key whatever the file holds, the file's field is the    *)
(* key when the variable is not set, and the key is absent only when       *)
(* neither source yields a value.                                          *)
(***************************************************************************)
Constructing == handler = NoHandler /\ handler' # NoHandler

\* what local_config.json yields: its field, when it is a readable object
\* that has the field
FileYields(cfg) ==
    IF cfg.kind = "object" /\ cfg.has THEN cfg.val ELSE PyNone

C3_EnvSetOverridesFile ==
    [][Constructing =>
         /\ environ # PyNone => handler'.encryption_key = environ
         /\ environ = PyNone => handler'.encryption_key = FileYields(config)
         /\ handler'.encryption_key = PyNone =>
                environ = PyNone /\ FileYields(config) = PyNone]_vars

(***************************************************************************)
(* C3, amended.  A non-empty environment variable is the key whatever the  *)
(* file holds; the file's field is the key when the variable is unset or   *)
(* empty; the key is None only when the variable is unset or empty and the *)
(* file yields no value.                                                   *)
(***************************************************************************)
NonEmptyEnv == environ # PyNone /\ environ # PyStr(<<>>)

C3_NonEmptyEnvOverridesFile ==
    [][Constructing =>
         /\ NonEmptyEnv => handler'.encryption_key = environ
         /\ ~NonEmptyEnv => handler'.encryption_key = FileYields(config)
         /\ handler'.encryption_key = PyNone =>
                ~NonEmptyEnv /\ FileYields(config) = PyNone]_vars

\* a handler whose environment variable is set and whose file holds another key
C3_Witness ==
    /\ handler # NoHandler
    /\ NonEmptyEnv
    /\ handler.encryption_key = environ
    /\ config.kind = "object" /\ config.has /\ Truthy(config.val)
    /\ config.val # environ

(***************************************************************************)
(* C4.  GET /api/encryption-key with a key v present answers 200 with      *)
(* Content-Type application/json and a body that reads as the JSON object  *)
(* {"key": v}, also for a key read from local_config.json.                 *)
(***************************************************************************)
C4_KeyPresent ==
    Sent /\ IsKeyRequest(response.req) /\ ~Absent(response.encryption_key) =>
        /\ response.r.status = 200
        /\ HeaderValues(response.r, "Content-Type") = {"application/json"}
        /\ HeaderCount(response.r, "Content-Type") = 1
        /\ JsonReadKey(response.r.body) = response.encryption_key

\* the key came from the file and holds a character json.dumps escapes
C4_Witness ==
    /\ Sent /\ IsKeyRequest(response.req)
    /\ environ = PyNone
    /\ response.encryption_key = PyStr(<<"\"">>)
    /\ response.r.status = 200

(***************************************************************************)
(* C5.  GET /api/encryption-key answers 404 exactly when no key is         *)
(* configured, and then with the body "Encryption key not configured".     *)
(***************************************************************************)
C5_KeyAbsent ==
    Sent /\ IsKeyRequest(response.req) =>
        /\ response.r.status = 404 <=> Absent(response.encryption_key)
        /\ Absent(response.encryption_key) => response.r.body = NotConfiguredText

\* no environment variable, no config file, and the 404
C5_Witness ==
    /\ Sent /\ IsKeyRequest(response.req)
    /\ environ = PyNone /\ config.kind = "missing"
    /\ response.encryption_key = PyNone
    /\ response.r.status = 404


(***************************************************************************)
(* C6.  A failure while reading local_config.json (unreadable, not JSON,   *)
(* JSON that is no object) is caught and logged and leaves the key None:   *)
(* the server keeps serving, the handler still sends a response, and       *)
(* GET /api/encryption-key answers 404.                                    *)
(***************************************************************************)
FailureKinds == {"unreadable", "malformed", "nonobject"}

C6_LoadFailureLeavesKeyAbsent ==
    /\ [][Constructing /\ ~NonEmptyEnv /\ config.kind \in FailureKinds =>
            /\ handler'.load_error
            /\ handler'.encryption_key = PyNone
            /\ "ErrorLoading" \in stdout'
            /\ pc' = "serving"]_vars
    /\ [][handler # NoHandler /\ handler' # handler =>
            /\ pc' = "serving"
            /\ response'.state = "sent"
            /\ response'.load_error = handler.load_error]_vars
    /\ [](Sent /\ response.load_error /\ IsKeyRequest(response.req) =>
            /\ response.r.status = 404
            /\ response.r.body = NotConfiguredText)

\* a malformed file, the failure logged, and the 404 of the key endpoint
C6_Witness ==
    /\ Sent /\ response.load_error /\ IsKeyRequest(response.req)
    /\ config.kind = "malformed"
    /\ "ErrorLoading" \in stdout
    /\ response.r.status = 404
    /\ pc = "serving"

(***************************************************************************)
(* C7.  As claimed: whenever no key is configured when the server starts,  *)
(* a warning has been logged, however the key came to be absent.           *)
(***************************************************************************)
C7_WarningWheneverAbsent ==
    pc = "serving" /\ Absent(startup) => "Warning" \in stdout

(***************************************************************************)
(* C8.  As claimed: any request whose path is /api/encryption-key is       *)
(* answered by the key lookup and never resolved against the serving       *)
(* directory.                                                              *)
(***************************************************************************)
IsKeyAnswer(r, key) ==
    \/ r.status = 200 /\ JsonReadKey(r.body) = key
    \/ r.status = 404 /\ r.body = NotConfiguredText

C8_AnyMethodKeyPath ==
    Sent /\ response.req.path = KeyPath =>
        ~response.r.fs /\ IsKeyAnswer(response.r, response.encryption_key)

(***************************************************************************)
(* C8, amended.  A GET request whose path is /api/encryption-key is        *)
(* answered by the key lookup and never resolved against the serving       *)
(* directory, whether or not a file api/encryption-key exists there; for   *)
(* GET, file serving runs only for other paths.                            *)
(***************************************************************************)
C8_GetKeyPathNeverFile ==
    Sent /\ response.req.method = "GET" =>
        /\ response.req.path = KeyPath =>
               /\ ~response.r.fs
               /\ IsKeyAnswer(response.r, response.encryption_key)
               /\ HeaderCount(response.r, "Content-Length") = 0
        /\ response.r.fs => response.req.path # KeyPath

\* the key endpoint answered while a file api/encryption-key exists
C8_Witness ==
    /\ Sent /\ IsKeyRequest(response.req)
    /\ "api/encryption-key" \in docroot
    /\ response.r.status = 200

(***************************************************************************)
(* C9.  OPTIONS on any path answers 200 with an empty body and the policy  *)
(* headers; neither the serving directory nor the key has a part in it.    *)
(***************************************************************************)
C9_Preflight ==
    Sent /\ response.req.method = "OPTIONS" =>
        /\ response.r.status = 200
        /\ response.r.body = <<>>
        /\ CarriesPolicy(response.r)
        /\ ~response.r.fs
        /\ {response.r.headers[i][1] : i \in 1..Len(response.r.headers)}
               = {"Server", "Date"} \cup {h[1] : h \in SpecifiedPolicy}

\* preflight of the key endpoint with no key and no such file
C9_Witness ==
    /\ Sent /\ response.req.method = "OPTIONS"
    /\ response.req.path = KeyPath
    /\ response.encryption_key = PyNone
    /\ "api/encryption-key" \notin docroot
    /\ response.r.status = 200

(***************************************************************************)
(* C10.  As claimed, for every start_port and max_attempts: find_free_port *)
(* returns the smallest port of start_port .. start_port+max_attempts-1    *)
(* that could be bound when probed, raises RuntimeError exactly when none  *)
(* of them could be bound, and on that error main exits with status 1      *)
(* without starting the server.                                            *)
(***************************************************************************)
FindEnded == lpc \in {"finished", "exit1", "serving", "traceback"} /\ args.caller # "none"

InRange(q) == args.start_port <= q /\ q < args.start_port + args.max_attempts

\* port q could not be bound: its bind raised OSError, or q is no port
CouldNotBind(q) == q \in probes \/ q \notin ValidPorts

FindFreePortContract ==
    /\ outcome = "returned" =>
           /\ InRange(port)
           /\ port \in ValidPorts /\ port \notin probes
           /\ \A q \in args.start_port .. (port - 1) : q \in probes
    /\ outcome = "RuntimeError" <=>
           \A q \in args.start_port .. (args.start_port + args.max_attempts - 1) :
               CouldNotBind(q)
    /\ args.caller = "main" /\ outcome = "RuntimeError" /\ lpc # "finished" =>
           lpc = "exit1"

C10_AnyArguments == FindEnded => FindFreePortContract

\* The contract does hold of every call whose range lies within the ports,
\* main's call find_free_port(8000) among them.
WithinPorts == args.start_port >= 0 /\ args.start_port + args.max_attempts <= 65536

FindFreePortWithinPorts == FindEnded /\ WithinPorts => FindFreePortContract

=============================================================================
